---- MODULE Spec2Model ----
(***************************************************************************)
(* The Notifier engine of sonde-notifier (src/src/notifier.py) with the    *)
(* listener thread of src/src/autorx.py that feeds it.                     *)
(*                                                                         *)
(* Two threads share three structures: the listener thread runs            *)
(* _handle_packet for every received payload summary, the main thread      *)
(* runs the loop of Notifier.run: _purge_old_tracked, _check_notifications,*)
(* time.sleep.                                                             *)
(*                                                                         *)
(* Lengths (distances, altitudes, configured radii) are fixed-point        *)
(* numbers in tenths of a metre, so that the int() truncation of the       *)
(* source has something to truncate; ring thresholds, once parsed, are     *)
(* whole metres.  Times are whole seconds.  A position is represented by   *)
(* its geodesic distance to the station.                                   *)
(***************************************************************************)
EXTENDS Integers, Sequences, FiniteSets, TLC

VARIABLES
    config,                     \* Notifier.config: the configuration as read
    range_rings,                \* Notifier.range_rings: the Registry
    notification_services,      \* Notifier.notification_services, in list order
    prediction_engine,          \* TRUE iff Notifier.prediction_engine is not None
    prediction_min_cycles,      \* Notifier.prediction_min_cycles
    only_predict_descending,    \* Notifier.only_predict_descending
    notify_check_interval,      \* Notifier.notify_check_interval (seconds)
    notification_check_cycles,  \* Notifier.notification_check_cycles
    tracked_sondes,             \* dict serial -> SondeFrame, in insertion order
    sondes_altitudes,           \* defaultdict serial -> deque(maxlen=5)
    notified_sondes,            \* defaultdict serial -> list of ring strings
    locks,                      \* owner of each of the three Lock objects
    pc,                         \* position of the main thread in Notifier.run
    run_prediction,             \* local of _check_notifications
    iter_len,                   \* size of tracked_sondes when the for loop started
    cursor,                     \* entries of tracked_sondes the for loop has yielded
    cur,                        \* locals of the loop body: serial, frame, is_descending
    run_listener,               \* AutoRXListener._run_listener
    listener,                   \* position of the listener thread in _listen
    failure,                    \* history: what made the listener thread close itself
    remove,                     \* local of _purge_old_tracked: serials still to remove
    handling,                   \* the frame _handle_packet is working on, if any
    now,                        \* datetime.now(timezone.utc), seconds
    tick,                       \* history: calls of _check_notifications so far
    log,                        \* history: outbound calls of the current check pass
    call,                       \* history: the last call of _check_range_rings
    fired,                      \* history: ring ids marked per serial and prefix
    dispatch,                   \* history: the last fan-out to the notification services
    cause,                      \* history: why Notifier.run left its loop
    ingested,                   \* history: altitudes appended per serial since its purge
    evaluated,                  \* history: serials live-checked since their last ingest step
    budget,                     \* environment: packets still to arrive
    inputs                      \* environment: the values packets and forecasts take

vars == << config, range_rings, notification_services, prediction_engine,
           prediction_min_cycles, only_predict_descending, notify_check_interval,
           notification_check_cycles, tracked_sondes, sondes_altitudes,
           notified_sondes, locks, pc, run_prediction, iter_len, cursor, cur,
           run_listener, listener, failure, remove, handling, now, tick, log, call,
           fired, dispatch, cause, ingested, evaluated, budget, inputs >>

config_vars == << config, range_rings, notification_services, prediction_engine,
                  prediction_min_cycles, only_predict_descending,
                  notify_check_interval, inputs >>

----------------------------------------------------------------------------
(* Bounds of the model *)

MaxTicks == 5          \* check passes of a run from a cold start
MaxPackets == 3        \* packets of a run from a cold start
WarmTicks == 6         \* check passes of a run that starts with sondes tracked
WarmPackets == 1       \* packets of such a run
WindowPackets == 7     \* packets of a run that fills one sonde's window
WindowTicks == 2       \* check passes of such a run
LockPackets == 3       \* packets of a run observed lock operation by lock operation
LockTicks == 4         \* check passes of such a run

(* Program constants *)

TRACKED_SONDES_MAX_SECONDS == 5*60*60

DequeMaxLen == 5

----------------------------------------------------------------------------
(* Optional values: None is <<>>, a value x is <<x>> *)

None == << >>
Some(x) == << x >>
IsNone(o) == Len(o) = 0
Get(o) == o[1]

Serials == {"A", "B"}
Prefixes == {"", "prediction"}
LockNames == {"tracked_sondes_lock", "notified_sondes_lock", "sondes_altitudes_lock"}

(* int(x) of a float held in tenths: truncation toward zero *)
PyInt(x) == IF x >= 0 THEN x \div 10 ELSE -((-x) \div 10)

(* Python's `a and b`: a when a is falsy, else b; a Lock object is truthy *)
PyAnd(a, b) == IF a = "" THEN a ELSE b

----------------------------------------------------------------------------
(* RangeRing *)

RangeRing(id, range, max_altitude, only_descending, prefix) ==
    [id |-> id, range |-> range, max_altitude |-> max_altitude,
     only_descending |-> only_descending, prefix |-> prefix]

(* mutant: the prefix handed to the call is ignored *)
as_string_no_prefix(ring, type, prefix_overwrite) ==
    LET p2 == IF ring.prefix # "" THEN ring.prefix \o "_" ELSE ring.prefix
        suffix == IF type = "name" THEN "name" ELSE ToString(ring.id)
    IN  p2 \o "range_ring_" \o suffix

as_string(ring, type, prefix_overwrite) ==
    LET p1 == IF prefix_overwrite # "" THEN prefix_overwrite ELSE ring.prefix
        p2 == IF p1 # "" THEN p1 \o "_" ELSE p1
        suffix == IF type = "name" THEN "name" ELSE ToString(ring.id)
    IN  p2 \o "range_ring_" \o suffix

(* the keys line 71-74 read from a range ring entry *)
RingKeys == {"name", "radius", "max_altitude", "only_descending"}

(* index of the first entry whose lookup raises KeyError, 0 if there is none *)
KeyErrorAt(cfg) ==
    LET bad == {i \in 1..Len(cfg) : ~(RingKeys \subseteq DOMAIN cfg[i])}
    IN  IF bad = {} THEN 0 ELSE CHOOSE i \in bad : \A j \in bad : i <= j

(* Notifier.__init__: ids follow the order of the config list; entry i of   *)
(* the list holds radius*1000 and max_altitude*1000 in tenths of a metre.   *)
(* The loop stops at the first entry that lacks a key.                      *)
ParseRangeRings(cfg) ==
    LET n == IF KeyErrorAt(cfg) = 0 THEN Len(cfg) ELSE KeyErrorAt(cfg) - 1
    IN  [i \in 1..n |->
            RangeRing(i - 1, PyInt(cfg[i].radius), PyInt(cfg[i].max_altitude),
                      cfg[i].only_descending, "")]

(* mutant: an invalid list of rings does not stop the start-up *)
StartupExits_never(cfg) == FALSE

(* lines 77-83: exit(1) on a KeyError or on an empty list of rings *)
StartupExits(cfg) == KeyErrorAt(cfg) # 0 \/ Len(ParseRangeRings(cfg)) = 0

----------------------------------------------------------------------------
(* SondeFrame and the insertion-ordered dict tracked_sondes *)

SondeFrame(serial, distance, altitude, time) ==
    [serial |-> serial, distance |-> distance, altitude |-> altitude, time |-> time]

calculate_distance(p) == p.distance

DictKeys(d) == {d[i].serial : i \in 1..Len(d)}

DictGet(d, serial) == d[CHOOSE i \in 1..Len(d) : d[i].serial = serial]

(* mutant: the frame of a serial already present is kept *)
DictSet_first_wins(d, frame) ==
    IF frame.serial \in DictKeys(d) THEN d ELSE Append(d, frame)

DictSet(d, frame) ==
    IF frame.serial \in DictKeys(d)
    THEN [i \in 1..Len(d) |-> IF d[i].serial = frame.serial THEN frame ELSE d[i]]
    ELSE Append(d, frame)

DictDelAll(d, keys) == SelectSeq(d, LAMBDA f : f.serial \notin keys)

(* defaultdict access: the value, and the dict with the key created *)
DefaultGet(dd, key) == IF key \in DOMAIN dd THEN dd[key] ELSE << >>

DefaultTouch(dd, key) == IF key \in DOMAIN dd THEN dd ELSE dd @@ (key :> << >>)

(* mutant: no key is deleted *)
Without_nothing(dd, keys) == dd

Without(dd, keys) == [k \in (DOMAIN dd) \ keys |-> dd[k]]

(* mutant: a full deque drops the new sample instead of the oldest *)
DequeAppend_keep_old(q, x) ==
    IF Len(q) >= 5 THEN q ELSE Append(q, x)

(* deque(maxlen=5).append *)
DequeAppend(q, x) ==
    IF Len(q) >= DequeMaxLen THEN Append(Tail(q), x) ELSE Append(q, x)

InList(x, list) == \E i \in 1..Len(list) : list[i] = x

----------------------------------------------------------------------------
(* _check_range_rings and _set_ring_notified *)

(* mutant: the comparison is made without int() *)
RingTriggered_untruncated(ring, distance, altitude) ==
    (distance <= ring.range * 10) /\ (altitude <= ring.max_altitude * 10)

RingTriggered(ring, distance, altitude) ==
    (PyInt(distance) <= ring.range) /\ (PyInt(altitude) <= ring.max_altitude)

RECURSIVE CheckFrom(_, _, _, _, _, _)
CheckFrom(i, notified, distance, altitude, descending, ring_prefix) ==
    IF i > Len(range_rings) THEN None
    ELSE LET ring == range_rings[i] IN
         IF InList(as_string(ring, "id", ring_prefix), notified)
         THEN CheckFrom(i + 1, notified, distance, altitude, descending, ring_prefix)
         ELSE IF ring.only_descending /\ ~descending
         THEN CheckFrom(i + 1, notified, distance, altitude, descending, ring_prefix)
         ELSE IF RingTriggered(ring, distance, altitude)
         THEN Some([ring EXCEPT !.prefix = ring_prefix])
         ELSE CheckFrom(i + 1, notified, distance, altitude, descending, ring_prefix)

(* mutant: the loop does not stop at the first hit and returns the last one *)
RECURSIVE CheckLastFrom(_, _, _, _, _, _)
CheckLastFrom(i, notified, distance, altitude, descending, ring_prefix) ==
    IF i < 1 THEN << >>
    ELSE LET ring == range_rings[i] IN
         IF /\ ~InList(as_string(ring, "id", ring_prefix), notified)
            /\ ~(ring.only_descending /\ ~descending)
            /\ RingTriggered(ring, distance, altitude)
         THEN << [ring EXCEPT !.prefix = ring_prefix] >>
         ELSE CheckLastFrom(i - 1, notified, distance, altitude, descending, ring_prefix)

check_range_rings_last(notified, distance, altitude, descending, ring_prefix) ==
    CheckLastFrom(Len(range_rings), notified, distance, altitude, descending, ring_prefix)

check_range_rings(notified, distance, altitude, descending, ring_prefix) ==
    CheckFrom(1, notified, distance, altitude, descending, ring_prefix)

RECURSIVE MarkFrom(_, _, _)
MarkFrom(i, notified, notified_ring) ==
    IF i > Len(range_rings) THEN notified
    ELSE LET ring == range_rings[i] IN
         IF ring.id >= notified_ring.id
         THEN MarkFrom(i + 1, Append(notified, as_string(ring, "id", notified_ring.prefix)),
                       notified_ring)
         ELSE MarkFrom(i + 1, notified, notified_ring)

(* mutant: only the ring that fired is marked *)
set_ring_notified_only_self(notified, notified_ring) ==
    Append(notified, as_string(notified_ring, "id", notified_ring.prefix))

(* mutant: the ring and all smaller rings are marked *)
set_ring_notified_smaller(notified, notified_ring) ==
    LET smaller == SelectSeq(range_rings, LAMBDA ring : ring.id <= notified_ring.id)
    IN  notified \o [i \in 1..Len(smaller) |->
                        as_string(smaller[i], "id", notified_ring.prefix)]

(* mutant: nothing is marked *)
set_ring_notified_forgets(notified, notified_ring) == notified

set_ring_notified(notified, notified_ring) == MarkFrom(1, notified, notified_ring)

(* mutant: equal consecutive samples count as descending *)
is_descending_nonstrict(altitudes) ==
    IF Len(altitudes) < 3 THEN FALSE
    ELSE \A i \in 1..(Len(altitudes) - 1) : altitudes[i] >= altitudes[i + 1]

(* the descending flag of _check_notifications *)
is_descending(altitudes) ==
    IF Len(altitudes) < 3 THEN FALSE
    ELSE \A i \in 1..(Len(altitudes) - 1) : altitudes[i] > altitudes[i + 1]

----------------------------------------------------------------------------
(* The notification services *)

(* the order in which Notifier.__init__ appends the enabled services *)
ServiceOrder == << "email", "ntfy", "gotify", "discord_webhook" >>

EnabledServices(enabled) == SelectSeq(ServiceOrder, LAMBDA x : x \in enabled)

(* services whose notify_rangering_prediction has the four parameters the   *)
(* call of line 182 passes; the other two declare a fifth, latest_distance, *)
(* and the call raises TypeError                                            *)
AcceptsPrediction(service) == service \in {"ntfy", "discord_webhook"}

FanOut(services, first) ==
    [invoked |-> SubSeq(services, 1, IF first = 0 THEN Len(services) ELSE first),
     raised |-> first # 0]

(* _notify_rangering: the services are called in list order; `failing` is   *)
(* the index of the first service whose outbound call raises, 0 if none     *)
(* does.  The exception leaves the loop.                                    *)
notify_rangering(services, failing) == FanOut(services, failing)

(* _notify_rangering_prediction: the same loop; a service that does not     *)
(* accept the call raises whatever its outbound call would have done        *)
notify_rangering_prediction(services, failing) ==
    LET raising == {i \in 1..Len(services) : ~AcceptsPrediction(services[i])}
                   \cup (IF failing = 0 THEN {} ELSE {failing})
    IN  FanOut(services,
               IF raising = {} THEN 0 ELSE CHOOSE i \in raising : \A j \in raising : i <= j)

----------------------------------------------------------------------------
(* PredictionEngine.run_landing_prediction *)

Response(kind, forecast) == [kind |-> kind, forecast |-> forecast]

ResponseKinds == {"network_error", "status_not_200", "body_not_json",
                  "body_without_trajectory", "ok"}

(* what the call does with the response of the API: it returns None when    *)
(* requests.get raises, on a status other than 200 and on a body that is    *)
(* not JSON; lines 95-103 index the decoded body outside any try, so a body *)
(* of another shape raises KeyError, IndexError or TypeError                *)
run_landing_prediction(response) ==
    IF response.kind \in {"network_error", "status_not_200", "body_not_json"}
    THEN [raises |-> FALSE, value |-> None]
    ELSE IF response.kind = "body_without_trajectory"
    THEN [raises |-> TRUE, value |-> None]
    ELSE [raises |-> FALSE, value |-> Some(response.forecast)]

----------------------------------------------------------------------------
(* AutoRXListener._listen: what one turn of the receive loop does with what *)
(* recvfrom yields, other than a well-formed payload summary                *)

Datagrams == {"not_json", "no_type", "other_type", "missing_field", "timeout",
              "socket_error"}

(* "raise": json.loads, packet["type"] or recvfrom raise inside the inner    *)
(* try, which catches socket.timeout only, so the outer handler logs and    *)
(* calls close(); "dropped": from_autorx raises and line 99 logs it;        *)
(* "ignored": a timeout or a packet of another type                         *)
listen_outcome(datagram) ==
    IF datagram \in {"not_json", "no_type", "socket_error"} THEN "raise"
    ELSE IF datagram = "missing_field" THEN "dropped"
    ELSE "ignored"

----------------------------------------------------------------------------
(* Configurations and inputs *)

RingEntry(radius, max_altitude, only_descending) ==
    [name |-> "ring", radius |-> radius, max_altitude |-> max_altitude,
     only_descending |-> only_descending]

(* a ring entry of the config file in which `key` is missing *)
Lacking(entry, key) == [k \in (DOMAIN entry) \ {key} |-> entry[k]]

(* radii 5 km and 20.0005 km, ceilings 1 km and 3 km, as config values times 1000 *)
PredictionConfig(enabled, cycles, only_descending) ==
    [enabled |-> enabled, cycles |-> cycles, only_descending |-> only_descending]

Config(rings, prediction, services) ==
    [rings |-> rings, prediction |-> prediction, services |-> EnabledServices(services)]

Rings5and20 == << RingEntry(50000, 10000, FALSE), RingEntry(200005, 30000, FALSE) >>
Rings5descAnd20 == << RingEntry(50000, 10000, TRUE), RingEntry(200005, 30000, FALSE) >>
Rings20and5 == << RingEntry(200005, 30000, FALSE), RingEntry(50000, 10000, FALSE) >>

(* the configurations a run starts from *)
ColdConfigs ==
    { Config(Rings5and20, PredictionConfig(TRUE, 1, FALSE), {"ntfy", "discord_webhook"}),
      Config(Rings5descAnd20, PredictionConfig(TRUE, 2, TRUE), {"email", "ntfy"}),
      Config(Rings20and5, PredictionConfig(FALSE, 1, FALSE), {}) }

(* configurations the start-up refuses: no ring, or a ring lacking a key *)
InvalidConfigs ==
    { Config(<< >>, PredictionConfig(FALSE, 1, FALSE), {"ntfy"}) }
    \cup
    { Config(<< RingEntry(50000, 10000, FALSE),
                Lacking(RingEntry(200005, 30000, FALSE), key) >>,
             PredictionConfig(FALSE, 1, FALSE), {"ntfy"}) : key \in RingKeys }

WarmConfigs ==
    { Config(Rings5and20, PredictionConfig(TRUE, 1, FALSE), {"ntfy", "discord_webhook"}),
      Config(Rings5descAnd20, PredictionConfig(TRUE, 2, TRUE), {"email", "ntfy"}),
      Config(Rings20and5, PredictionConfig(TRUE, 3, FALSE), {"discord_webhook"}),
      Config(Rings5and20, PredictionConfig(FALSE, 1, FALSE),
             {"email", "ntfy", "gotify", "discord_webhook"}) }

Packet(distance, altitude) == [distance |-> distance, altitude |-> altitude]

(* far and high; inside the 20 km ring; on the edge of the 5 km ring *)
Packets == { Packet(250000, 40000), Packet(150000, 20000), Packet(50009, 10009) }

Forecasts == { Packet(40000, 1000), Packet(150000, 1000) }

(* responses of the prediction API: every failure, and every forecast *)
Responses(forecasts) ==
    { Response(k, Packet(0, 0)) : k \in ResponseKinds \ {"ok"} }
    \cup { Response("ok", f) : f \in forecasts }

----------------------------------------------------------------------------
(* Initial state: Notifier.__init__ has run, the listener is started *)

InitEngine ==
    /\ notification_check_cycles = 1
    /\ notified_sondes = << >>
    /\ locks = [l \in LockNames |-> "free"]
    /\ run_prediction = FALSE
    /\ iter_len = 0
    /\ cursor = 0
    /\ cur = None
    /\ remove = << >>
    /\ dispatch = None
    /\ cause = "none"
    /\ failure = "none"
    /\ handling = None
    /\ now = 0
    /\ tick = 0
    /\ log = << >>
    /\ call = None
    /\ fired = [s \in Serials |-> [p \in Prefixes |-> << >>]]
    /\ evaluated = {}
    /\ notify_check_interval = 100 * 60

InitConfig(c) ==
    /\ config = c
    /\ range_rings = ParseRangeRings(c.rings)
    /\ notification_services = c.services
    /\ pc = IF StartupExits(c.rings) THEN "terminated" ELSE "purge"
    /\ prediction_engine = c.prediction.enabled
    /\ prediction_min_cycles = c.prediction.cycles
    /\ only_predict_descending = c.prediction.only_descending

Inputs(serials, packets, forecasts, total, max_ticks) ==
    [serials |-> serials, packets |-> packets, responses |-> Responses(forecasts),
     datagrams |-> Datagrams, total |-> total, max_ticks |-> max_ticks]

(* Notifier.run has started the listener thread, which has not bound its    *)
(* socket yet; a Notifier whose construction ended the process has none     *)
InitListener ==
    /\ run_listener = FALSE
    /\ listener = IF pc = "terminated" THEN "none" ELSE "bind"

(* A cold start: nothing is tracked yet *)
Init ==
    /\ InitEngine
    /\ tracked_sondes = << >>
    /\ sondes_altitudes = << >>
    /\ ingested = [s \in Serials |-> << >>]
    /\ \E c \in ColdConfigs \cup InvalidConfigs : InitConfig(c)
    /\ InitListener
    /\ budget = MaxPackets
    /\ inputs = Inputs(Serials, Packets, Forecasts, MaxPackets, MaxTicks)

(* A cold start of a run in which one sonde sends many packets *)
InitWindow ==
    /\ InitEngine
    /\ tracked_sondes = << >>
    /\ sondes_altitudes = << >>
    /\ ingested = [s \in Serials |-> << >>]
    /\ InitConfig(Config(Rings5and20, PredictionConfig(TRUE, 1, FALSE), {"ntfy"}))
    /\ InitListener
    /\ budget = WindowPackets
    /\ inputs = Inputs({"A"}, {Packet(150000, 20000), Packet(50009, 10009)},
                       {Packet(40000, 1000)}, WindowPackets, WindowTicks)

(* A warm start: before the first pass of the main thread the listener has  *)
(* already handled, for each sonde of `windows`, packets with the altitudes *)
(* of its window, the last of them at `distance`.                           *)
WarmWindows ==
    { << 40000 >>, << 40000, 20000 >>, << 40000, 20000, 10009 >>,
      << 10009, 20000, 10009 >>, << 20000, 20000, 10009 >>,
      << 40000, 30000, 20000, 10009 >>, << 50000, 40000, 30000, 20000, 10009 >>,
      << 50000, 40000, 30000, 30000, 10009 >>, << 40000, 30000, 10, -5 >> }

WarmDistances == { 250000, 150000, 50009, 50010 }

WarmSonde(serial, window, distance) ==
    [frame |-> SondeFrame(serial, distance, window[Len(window)], 0), window |-> window]

WarmStarts ==
    { << WarmSonde("A", w, d) >> : w \in WarmWindows, d \in WarmDistances }
    \cup
    { << WarmSonde("A", << 40000, 20000, 10009 >>, 150000), WarmSonde("B", w, 50009) >> :
         w \in { << 40000 >>, << 40000, 30000, 20000, 10009 >> } }

InitWarm ==
    /\ InitEngine
    /\ \E start \in WarmStarts :
          /\ tracked_sondes = [i \in 1..Len(start) |-> start[i].frame]
          /\ sondes_altitudes =
                 [s \in {start[i].frame.serial : i \in 1..Len(start)} |->
                     (CHOOSE x \in {start[i] : i \in 1..Len(start)} :
                         x.frame.serial = s).window]
          /\ ingested = [s \in Serials |->
                 IF \E i \in 1..Len(start) : start[i].frame.serial = s
                 THEN (CHOOSE x \in {start[i] : i \in 1..Len(start)} :
                          x.frame.serial = s).window
                 ELSE << >>]
    /\ \E c \in WarmConfigs : InitConfig(c)
    /\ run_listener = TRUE
    /\ listener = "loop"
    /\ budget = WarmPackets
    /\ inputs = Inputs(Serials, Packets, Forecasts, WarmPackets + 1, WarmTicks)

----------------------------------------------------------------------------
(* The listener thread *)

(* _listen up to line 89: the socket is bound and the run flag is set; a    *)
(* bind that raises is logged by the handler of line 105, which calls       *)
(* close(): the flag is cleared and the thread ends.                        *)
ListenerBind(ok) ==
    /\ listener = "bind"
    /\ IF ok
       THEN run_listener' = TRUE /\ listener' = "loop" /\ failure' = failure
       ELSE run_listener' = FALSE /\ listener' = "failed" /\ failure' = "bind"
    /\ UNCHANGED << config_vars, ingested, evaluated, notification_check_cycles, tracked_sondes,
                    sondes_altitudes, notified_sondes, locks, pc, run_prediction,
                    iter_len, cursor, cur, remove, handling, now, tick, log, call,
                    fired, dispatch, cause, budget >>

(* AutoRXListener._listen receives a payload summary, stamps it with the    *)
(* time of reception and calls _handle_packet, whose first block upserts    *)
(* the frame under tracked_sondes_lock.                                     *)
HandlePacketUpsert(serial, packet) ==
    /\ listener = "loop"
    /\ run_listener
    /\ IsNone(handling)
    /\ budget > 0
    /\ (serial = "A" \/ budget < inputs.total)    \* serials are interchangeable
    /\ locks["tracked_sondes_lock"] = "free"
    /\ LET frame == SondeFrame(serial, packet.distance, packet.altitude, now) IN
         /\ tracked_sondes' = DictSet(tracked_sondes, frame)
         /\ handling' = Some(frame)
    /\ budget' = budget - 1
    /\ evaluated' = evaluated \ {serial}
    /\ UNCHANGED << config_vars, failure, ingested, notification_check_cycles, sondes_altitudes,
                    notified_sondes, locks, pc, run_prediction, iter_len, cursor,
                    cur, run_listener, listener, remove, now, tick, log, call, fired,
                    dispatch, cause >>

(* The second block of _handle_packet: append under sondes_altitudes_lock *)
HandlePacketAppend ==
    /\ listener = "loop"
    /\ ~IsNone(handling)
    /\ locks["sondes_altitudes_lock"] = "free"
    /\ LET frame == Get(handling) IN
         /\ sondes_altitudes' =
             (frame.serial :> DequeAppend(DefaultGet(sondes_altitudes, frame.serial),
                                          frame.altitude)) @@ sondes_altitudes
         /\ ingested' = [ingested EXCEPT ![frame.serial] = Append(@, frame.altitude)]
         /\ evaluated' = evaluated \ {frame.serial}
    /\ handling' = None
    /\ UNCHANGED << config_vars, failure, notification_check_cycles, tracked_sondes,
                    notified_sondes, locks, pc, run_prediction, iter_len, cursor,
                    cur, run_listener, listener, remove, now, tick, log, call, fired,
                    dispatch, cause, budget >>

(* A turn of the receive loop that calls nothing: a timeout, a packet of    *)
(* another type, a payload summary that from_autorx cannot parse            *)
ListenerDrop(datagram) ==
    /\ listener = "loop"
    /\ run_listener
    /\ IsNone(handling)
    /\ budget > 0
    /\ listen_outcome(datagram) \in {"dropped", "ignored"}
    /\ budget' = budget - 1
    /\ UNCHANGED << config_vars, failure, ingested, evaluated, notification_check_cycles, tracked_sondes,
                    sondes_altitudes, notified_sondes, locks, pc, run_prediction,
                    iter_len, cursor, cur, run_listener, listener, remove, handling,
                    now, tick, log, call, fired, dispatch, cause >>

(* mutant: after the failure the listener is started again *)
ListenerFail_restarts(datagram) ==
    /\ listener = "loop"
    /\ run_listener
    /\ IsNone(handling)
    /\ budget > 0
    /\ listen_outcome(datagram) = "raise"
    /\ budget' = budget - 1
    /\ run_listener' = FALSE
    /\ listener' = "bind"
    /\ failure' = datagram
    /\ UNCHANGED << config_vars, ingested, evaluated, notification_check_cycles, tracked_sondes,
                    sondes_altitudes, notified_sondes, locks, pc, run_prediction,
                    iter_len, cursor, cur, remove, handling, now, tick, log, call,
                    fired, dispatch, cause >>

(* A turn of the receive loop that raises past the inner try: the handler   *)
(* of line 105 logs and calls close() from the listener thread itself,      *)
(* which clears the flag and forgets the thread; the thread ends.           *)
ListenerFail(datagram) ==
    /\ listener = "loop"
    /\ run_listener
    /\ IsNone(handling)
    /\ budget > 0
    /\ listen_outcome(datagram) = "raise"
    /\ budget' = budget - 1
    /\ run_listener' = FALSE
    /\ listener' = "failed"
    /\ failure' = datagram
    /\ UNCHANGED << config_vars, ingested, evaluated, notification_check_cycles, tracked_sondes,
                    sondes_altitudes, notified_sondes, locks, pc, run_prediction,
                    iter_len, cursor, cur, remove, handling, now, tick, log, call,
                    fired, dispatch, cause >>

(* `while self._run_listener` finds the flag cleared *)
ListenerExit ==
    /\ listener = "loop"
    /\ ~run_listener
    /\ IsNone(handling)
    /\ listener' = "stopped"
    /\ UNCHANGED << config_vars, failure, ingested, evaluated, notification_check_cycles, tracked_sondes,
                    sondes_altitudes, notified_sondes, locks, pc, run_prediction,
                    iter_len, cursor, cur, run_listener, remove, handling, now, tick,
                    log, call, fired, dispatch, cause, budget >>

----------------------------------------------------------------------------
(* The main thread *)

Released == [l \in LockNames |-> IF locks[l] = "tick" THEN "free" ELSE locks[l]]

(* An exception leaves the loop of Notifier.run: the with blocks release    *)
(* their locks, the handlers of lines 322-326 log, and the finally block    *)
(* calls close(), which clears the run flag and then joins the thread.      *)
Finally(why) ==
    /\ pc' = "join"
    /\ locks' = Released
    /\ run_listener' = FALSE
    /\ cause' = why

frame_age(frame) == now - frame.time

(* mutant: a frame of exactly the maximum age is kept *)
RemoveList_strict ==
    LET old == SelectSeq(tracked_sondes,
                         LAMBDA f : now - f.time > TRACKED_SONDES_MAX_SECONDS)
    IN  [i \in 1..Len(old) |-> old[i].serial]

(* mutant: no frame is ever too old *)
RemoveList_none == << >>

(* serials of the frames that are too old, in dict order *)
RemoveList ==
    LET old == SelectSeq(tracked_sondes,
                         LAMBDA f : frame_age(f) >= TRACKED_SONDES_MAX_SECONDS)
    IN  [i \in 1..Len(old) |-> old[i].serial]

(* _purge_old_tracked.  `del self.sondes_altitudes[serial]` raises KeyError *)
(* for a serial without a window: the pass stops there and the exception    *)
(* ends Notifier.run.                                                       *)
PurgeOldTracked ==
    /\ pc = "purge"
    /\ \A l \in LockNames : locks[l] = "free"
    /\ LET old == RemoveList
           missing == {i \in 1..Len(old) : old[i] \notin DOMAIN sondes_altitudes}
           stop == IF missing = {} THEN Len(old) + 1
                   ELSE CHOOSE i \in missing : \A j \in missing : i <= j
           gone == {old[i] : i \in {j \in 1..Len(old) : j <= stop}}
           gone_alt == {old[i] : i \in {j \in 1..Len(old) : j < stop}}
       IN  /\ tracked_sondes' = DictDelAll(tracked_sondes, gone)
           /\ notified_sondes' = Without(notified_sondes, gone)
           /\ sondes_altitudes' = Without(sondes_altitudes, gone_alt)
           /\ fired' = [s \in Serials |->
                           IF s \in gone THEN [p \in Prefixes |-> << >>] ELSE fired[s]]
           /\ ingested' = [s \in Serials |->
                              IF s \in gone_alt THEN << >> ELSE ingested[s]]
           /\ evaluated' = evaluated \ gone
           /\ IF missing = {}
              THEN pc' = "check" /\ UNCHANGED << locks, run_listener, cause >>
              ELSE Finally("KeyError")
    /\ UNCHANGED << config_vars, failure, notification_check_cycles, run_prediction,
                    iter_len, cursor, cur, listener, remove, handling, now, tick, log,
                    call, dispatch, budget >>

(* the lock the `with a and b and c:` statement of line 235 acquires *)
WithLock ==
    PyAnd(PyAnd("tracked_sondes_lock", "notified_sondes_lock"), "sondes_altitudes_lock")

(* mutant: the counter has to exceed the configured cycles *)
EnoughCycles_late ==
    prediction_engine /\ ~(notification_check_cycles <= prediction_min_cycles)

(* lines 226-233: whether this pass runs predictions *)
EnoughCycles ==
    prediction_engine /\ ~(notification_check_cycles < prediction_min_cycles)

(* _check_notifications up to the start of its for loop *)
CheckBegin ==
    /\ pc = "check"
    /\ locks[WithLock] = "free"
    /\ run_prediction' = EnoughCycles
    /\ notification_check_cycles' = IF EnoughCycles THEN 0 ELSE notification_check_cycles
    /\ locks' = [locks EXCEPT ![WithLock] = "tick"]
    /\ iter_len' = Len(tracked_sondes)
    /\ cursor' = 0
    /\ tick' = tick + 1
    /\ log' = << >>
    /\ pc' = "iter"
    /\ UNCHANGED << config_vars, failure, ingested, evaluated, tracked_sondes, sondes_altitudes, notified_sondes,
                    cur, run_listener, listener, remove, handling, now, call, fired,
                    dispatch, cause, budget >>

Event(ev, serial, prefix, ring) ==
    [ev |-> ev, serial |-> serial, prefix |-> prefix, ring |-> ring]

CallRecord(serial, distance, altitude, descending, prefix, notified, ret) ==
    [serial |-> serial, distance |-> distance, altitude |-> altitude,
     descending |-> descending, prefix |-> prefix, notified |-> notified, ret |-> ret]

Dispatch(serial, prefix, ring, fan_out) ==
    [serial |-> serial, prefix |-> prefix, ring |-> ring,
     invoked |-> fan_out.invoked, raised |-> fan_out.raised]

(* One pass of the loop body up to line 250: the next (serial, frame) of the *)
(* dict, the descending flag, the live check, dispatch and marking.  A       *)
(* service call that raises ends Notifier.run.                               *)
LiveCheck(failing) ==
    /\ pc = "iter"
    /\ Len(tracked_sondes) = iter_len
    /\ cursor < Len(tracked_sondes)
    /\ LET frame == tracked_sondes[cursor + 1]
           serial == frame.serial
           altitudes == DefaultGet(sondes_altitudes, serial)
           descending == is_descending(altitudes)
           sonde_distance == calculate_distance(frame)
           notified == DefaultGet(notified_sondes, serial)
           triggered_ring == check_range_rings(notified, sonde_distance,
                                               frame.altitude, descending, "")
           fan_out == notify_rangering(notification_services, failing)
       IN  /\ sondes_altitudes' = DefaultTouch(sondes_altitudes, serial)
           /\ evaluated' = evaluated \cup {serial}
           /\ cur' = Some([serial |-> serial, frame |-> frame,
                           is_descending |-> descending])
           /\ call' = Some(CallRecord(serial, sonde_distance, frame.altitude,
                                      descending, "", notified, triggered_ring))
           /\ IF IsNone(triggered_ring)
              THEN /\ failing = 0
                   /\ notified_sondes' = DefaultTouch(notified_sondes, serial)
                   /\ UNCHANGED << log, fired, dispatch, locks, run_listener, cause >>
                   /\ pc' = IF run_prediction THEN "predict" ELSE "iter"
              ELSE /\ log' = Append(log, Event("notify", serial, "", Get(triggered_ring).id))
                   /\ dispatch' = Some(Dispatch(serial, "", Get(triggered_ring).id,
                                                fan_out))
                   /\ IF ~fan_out.raised
                      THEN /\ notified_sondes' =
                                  (serial :> set_ring_notified(notified, Get(triggered_ring)))
                                  @@ notified_sondes
                           /\ fired' = [fired EXCEPT ![serial][""] =
                                           Append(@, Get(triggered_ring).id)]
                           /\ pc' = IF run_prediction THEN "predict" ELSE "iter"
                           /\ UNCHANGED << locks, run_listener, cause >>
                      ELSE /\ notified_sondes' = DefaultTouch(notified_sondes, serial)
                           /\ Finally("service")
                           /\ UNCHANGED fired
    /\ cursor' = cursor + 1
    /\ UNCHANGED << config_vars, failure, ingested, notification_check_cycles, tracked_sondes,
                    run_prediction, iter_len, listener, remove, handling, now, tick,
                    budget >>

(* mutant: the age of the latest frame is not looked at *)
PredictionSkipped_any_age(c) ==
    \/ Len(DefaultGet(sondes_altitudes, c.serial)) < 3
    \/ (only_predict_descending /\ ~c.is_descending)

(* the three `continue` conditions of lines 255-270 *)
PredictionSkipped(c) ==
    \/ Len(DefaultGet(sondes_altitudes, c.serial)) < 3
    \/ frame_age(c.frame) > notify_check_interval
    \/ (only_predict_descending /\ ~c.is_descending)

PredictionSkip ==
    /\ pc = "predict"
    /\ PredictionSkipped(Get(cur))
    /\ pc' = "iter"
    /\ UNCHANGED << config_vars, failure, ingested, evaluated, notification_check_cycles, tracked_sondes,
                    sondes_altitudes, notified_sondes, locks, run_prediction,
                    iter_len, cursor, cur, run_listener, listener, remove, handling,
                    now, tick, log, call, fired, dispatch, cause, budget >>

(* mutant: a failed prediction leaves the for loop *)
Continue_leaves == "sleep"

(* line 286: `continue` goes on with the next item of the for loop *)
Continue == "iter"

(* Lines 274-301: the request, and on a forecast the check under the        *)
(* "prediction" prefix, dispatch and marking.  An exception of              *)
(* run_landing_prediction or of a service call ends Notifier.run.           *)
PredictionCheck(response, failing) ==
    /\ pc = "predict"
    /\ ~PredictionSkipped(Get(cur))
    /\ LET c == Get(cur)
           serial == c.serial
           notified == DefaultGet(notified_sondes, serial)
           request == Event("request", serial, "prediction", -1)
           outcome == run_landing_prediction(response)
           landing_prediction == outcome.value
       IN  IF outcome.raises
           THEN /\ failing = 0
                /\ log' = Append(log, request)
                /\ Finally("prediction")
                /\ UNCHANGED << notified_sondes, fired, dispatch, call >>
           ELSE IF IsNone(landing_prediction)
           THEN /\ failing = 0
                /\ log' = log \o << request, Event("warning", serial, "prediction", -1) >>
                /\ pc' = Continue
                /\ UNCHANGED << notified_sondes, fired, dispatch, locks, run_listener,
                                cause, call >>
           ELSE LET prediction_distance == calculate_distance(Get(landing_prediction))
                    triggered_ring ==
                        check_range_rings(notified, prediction_distance,
                                          Get(landing_prediction).altitude,
                                          c.is_descending, "prediction")
                    fan_out == notify_rangering_prediction(notification_services, failing)
                IN  /\ call' = Some(CallRecord(serial, prediction_distance,
                                               Get(landing_prediction).altitude,
                                               c.is_descending, "prediction",
                                               notified, triggered_ring))
                    /\ IF IsNone(triggered_ring)
                       THEN /\ failing = 0
                            /\ log' = Append(log, request)
                            /\ pc' = "iter"
                            /\ UNCHANGED << notified_sondes, fired, dispatch, locks,
                                            run_listener, cause >>
                       ELSE /\ log' = log \o << request,
                                          Event("notify", serial, "prediction",
                                                Get(triggered_ring).id) >>
                            /\ dispatch' = Some(Dispatch(serial, "prediction",
                                                         Get(triggered_ring).id,
                                                         fan_out))
                            /\ IF ~fan_out.raised
                               THEN /\ notified_sondes' =
                                          [notified_sondes EXCEPT ![serial] =
                                              set_ring_notified(notified, Get(triggered_ring))]
                                    /\ fired' = [fired EXCEPT ![serial]["prediction"] =
                                                    Append(@, Get(triggered_ring).id)]
                                    /\ pc' = "iter"
                                    /\ UNCHANGED << locks, run_listener, cause >>
                               ELSE /\ Finally("service")
                                    /\ UNCHANGED << notified_sondes, fired >>
    /\ UNCHANGED << config_vars, failure, ingested, evaluated, notification_check_cycles, tracked_sondes,
                    sondes_altitudes, run_prediction, iter_len, cursor, cur,
                    listener, remove, handling, now, tick, budget >>

(* The dict iterator finds the dict's size changed: RuntimeError *)
IterationChanged ==
    /\ pc = "iter"
    /\ Len(tracked_sondes) # iter_len
    /\ Finally("RuntimeError")
    /\ UNCHANGED << config_vars, failure, ingested, evaluated, notification_check_cycles, tracked_sondes,
                    sondes_altitudes, notified_sondes, run_prediction, iter_len,
                    cursor, cur, listener, remove, handling, now, tick, log, call,
                    fired, dispatch, budget >>

(* The for loop is exhausted: the lock is released, line 303 counts the pass *)
CheckEnd ==
    /\ pc = "iter"
    /\ Len(tracked_sondes) = iter_len
    /\ cursor = Len(tracked_sondes)
    /\ locks' = Released
    /\ notification_check_cycles' = notification_check_cycles + 1
    /\ cur' = None
    /\ call' = None
    /\ log' = << >>
    /\ dispatch' = None
    /\ pc' = "sleep"
    /\ UNCHANGED << config_vars, failure, ingested, evaluated, tracked_sondes, sondes_altitudes, notified_sondes,
                    run_prediction, iter_len, cursor, run_listener, listener, remove,
                    handling, now, tick, fired, cause, budget >>

(* time.sleep(self.notify_check_interval) *)
Sleep ==
    /\ pc = "sleep"
    /\ tick < inputs.max_ticks
    /\ now' = now + notify_check_interval
    /\ pc' = "purge"
    /\ UNCHANGED << config_vars, failure, ingested, evaluated, notification_check_cycles, tracked_sondes,
                    sondes_altitudes, notified_sondes, locks, run_prediction,
                    iter_len, cursor, cur, run_listener, listener, remove, handling,
                    tick, log, call, fired, dispatch, cause, budget >>

(* positions of the main thread inside the loop of Notifier.run *)
InLoop == pc \in {"purge", "purging", "purge_notified", "purge_between",
                  "purge_altitudes", "check", "iter", "predict", "sleep"}

(* The user interrupts the program: KeyboardInterrupt is raised in the main *)
(* thread, wherever it is in the loop.                                      *)
KeyboardInterrupt ==
    /\ InLoop
    /\ Finally("KeyboardInterrupt")
    /\ UNCHANGED << config_vars, failure, ingested, evaluated, notification_check_cycles, tracked_sondes,
                    sondes_altitudes, notified_sondes, run_prediction, iter_len,
                    cursor, cur, listener, remove, handling, now, tick, log, call,
                    fired, dispatch, budget >>

(* close() returns from join(timeout=3) and Notifier.run returns: the       *)
(* listener thread has ended, or the three seconds have passed, which a     *)
(* thread that finds its flag cleared within a receive timeout of one       *)
(* second does not let happen.                                              *)
JoinReturn ==
    /\ pc = "join"
    /\ \/ listener \in {"stopped", "failed"}
       \/ (listener = "loop" /\ run_listener)
    /\ pc' = "exited"
    /\ UNCHANGED << config_vars, failure, ingested, evaluated, notification_check_cycles, tracked_sondes,
                    sondes_altitudes, notified_sondes, locks, run_prediction,
                    iter_len, cursor, cur, run_listener, listener, remove, handling,
                    now, tick, log, call, fired, dispatch, cause, budget >>

----------------------------------------------------------------------------

(* the steps of the listener thread once started, and of the main thread *)
Running ==
    \/ \E serial \in inputs.serials, packet \in inputs.packets :
          HandlePacketUpsert(serial, packet)
    \/ HandlePacketAppend
    \/ \E datagram \in inputs.datagrams : ListenerDrop(datagram)
    \/ \E datagram \in inputs.datagrams : ListenerFail(datagram)
    \/ ListenerExit
    \/ PurgeOldTracked
    \/ CheckBegin
    \/ \E failing \in 0..Len(notification_services) : LiveCheck(failing)
    \/ PredictionSkip
    \/ \E response \in inputs.responses, failing \in 0..Len(notification_services) :
          PredictionCheck(response, failing)
    \/ IterationChanged
    \/ CheckEnd
    \/ Sleep
    \/ KeyboardInterrupt
    \/ JoinReturn

Next ==
    \/ \E ok \in BOOLEAN : ListenerBind(ok)
    \/ Running

Spec == Init /\ [][Next]_vars

(* the listener thread is in its receive loop from the first state on *)
SpecWarm == InitWarm /\ [][Running]_vars

SpecWindow == InitWindow /\ [][Next]_vars

(* The same run on the time scale of the program: time.sleep returns after  *)
(* notify_check_interval seconds, all locks are free while the main thread  *)
(* sleeps, and a call of _handle_packet that has left its first with block  *)
(* has by then executed its second one.                                     *)
SleepAfterIngest ==
    /\ Sleep
    /\ IsNone(handling)

NextTimed ==
    \/ \E ok \in BOOLEAN : ListenerBind(ok)
    \/ \E serial \in inputs.serials, packet \in inputs.packets :
          HandlePacketUpsert(serial, packet)
    \/ HandlePacketAppend
    \/ \E datagram \in inputs.datagrams : ListenerDrop(datagram)
    \/ \E datagram \in inputs.datagrams : ListenerFail(datagram)
    \/ ListenerExit
    \/ PurgeOldTracked
    \/ CheckBegin
    \/ \E failing \in 0..Len(notification_services) : LiveCheck(failing)
    \/ PredictionSkip
    \/ \E response \in inputs.responses, failing \in 0..Len(notification_services) :
          PredictionCheck(response, failing)
    \/ IterationChanged
    \/ CheckEnd
    \/ SleepAfterIngest
    \/ KeyboardInterrupt
    \/ JoinReturn

SpecTimed == Init /\ [][NextTimed]_vars

----------------------------------------------------------------------------
(* The same two threads, one lock operation at a time.  _handle_packet and  *)
(* _purge_old_tracked are taken apart at every acquire and every release;   *)
(* a Lock that is not free makes its acquire wait.                          *)

(* mutant: leaving the second with block of _handle_packet keeps its lock *)
ExitWith_keeps_altitudes(lock) ==
    IF lock = "sondes_altitudes_lock" THEN locks ELSE [locks EXCEPT ![lock] = "free"]

(* the end of a with block *)
ExitWith(lock) == [locks EXCEPT ![lock] = "free"]

EnterWith(lock, thread) == [locks EXCEPT ![lock] = thread]

(* line 93-102: a payload summary is received and handed to _handle_packet *)
ListenerReceive(serial, packet) ==
    /\ listener = "loop"
    /\ run_listener
    /\ IsNone(handling)
    /\ budget > 0
    /\ handling' = Some(SondeFrame(serial, packet.distance, packet.altitude, now))
    /\ listener' = "want_tracked"
    /\ budget' = budget - 1
    /\ UNCHANGED << config_vars, failure, ingested, evaluated, notification_check_cycles, tracked_sondes,
                    sondes_altitudes, notified_sondes, locks, pc, run_prediction,
                    iter_len, cursor, cur, run_listener, remove, now, tick, log, call,
                    fired, dispatch, cause >>

(* line 115 and line 122: `with lock:` is entered *)
ListenerAcquire ==
    /\ listener \in {"want_tracked", "want_altitudes"}
    /\ LET lock == IF listener = "want_tracked" THEN "tracked_sondes_lock"
                   ELSE "sondes_altitudes_lock"
       IN  /\ locks[lock] = "free"
           /\ locks' = EnterWith(lock, "listener")
    /\ listener' = IF listener = "want_tracked" THEN "in_tracked" ELSE "in_altitudes"
    /\ UNCHANGED << config_vars, failure, ingested, evaluated, notification_check_cycles, tracked_sondes,
                    sondes_altitudes, notified_sondes, pc, run_prediction, iter_len,
                    cursor, cur, run_listener, remove, handling, now, tick, log, call,
                    fired, dispatch, cause, budget >>

(* lines 117-120 and the end of the first with block *)
ListenerUpsert ==
    /\ listener = "in_tracked"
    /\ tracked_sondes' = DictSet(tracked_sondes, Get(handling))
    /\ evaluated' = evaluated \ {Get(handling).serial}
    /\ locks' = ExitWith("tracked_sondes_lock")
    /\ listener' = "want_altitudes"
    /\ UNCHANGED << config_vars, failure, ingested, notification_check_cycles, sondes_altitudes,
                    notified_sondes, pc, run_prediction, iter_len, cursor, cur,
                    run_listener, remove, handling, now, tick, log, call, fired,
                    dispatch, cause, budget >>

(* line 123 and the end of the second with block *)
ListenerAppend ==
    /\ listener = "in_altitudes"
    /\ LET frame == Get(handling) IN
         /\ sondes_altitudes' =
             (frame.serial :> DequeAppend(DefaultGet(sondes_altitudes, frame.serial),
                                          frame.altitude)) @@ sondes_altitudes
         /\ ingested' = [ingested EXCEPT ![frame.serial] = Append(@, frame.altitude)]
         /\ evaluated' = evaluated \ {frame.serial}
    /\ locks' = ExitWith("sondes_altitudes_lock")
    /\ handling' = None
    /\ listener' = "loop"
    /\ UNCHANGED << config_vars, failure, notification_check_cycles, tracked_sondes,
                    notified_sondes, pc, run_prediction, iter_len, cursor, cur,
                    run_listener, remove, now, tick, log, call, fired, dispatch,
                    cause, budget >>

(* lines 131-137: the outer with block is entered, the old serials listed *)
PurgeAcquire ==
    /\ pc = "purge"
    /\ locks["tracked_sondes_lock"] = "free"
    /\ locks' = EnterWith("tracked_sondes_lock", "tick")
    /\ remove' = RemoveList
    /\ pc' = "purging"
    /\ UNCHANGED << config_vars, failure, ingested, evaluated, notification_check_cycles, tracked_sondes,
                    sondes_altitudes, notified_sondes, run_prediction, iter_len,
                    cursor, cur, run_listener, listener, handling, now, tick, log,
                    call, fired, dispatch, cause, budget >>

(* lines 141-144: the next serial leaves tracked_sondes and the with block  *)
(* of notified_sondes_lock is entered                                       *)
PurgeNext ==
    /\ pc = "purging"
    /\ remove # << >>
    /\ locks["notified_sondes_lock"] = "free"
    /\ tracked_sondes' = DictDelAll(tracked_sondes, {Head(remove)})
    /\ locks' = EnterWith("notified_sondes_lock", "tick")
    /\ pc' = "purge_notified"
    /\ UNCHANGED << config_vars, failure, ingested, evaluated, notification_check_cycles, sondes_altitudes,
                    notified_sondes, run_prediction, iter_len, cursor, cur,
                    run_listener, listener, remove, handling, now, tick, log, call,
                    fired, dispatch, cause, budget >>

(* lines 145-146 and the end of that with block *)
PurgeNotified ==
    /\ pc = "purge_notified"
    /\ notified_sondes' = Without(notified_sondes, {Head(remove)})
    /\ fired' = [fired EXCEPT ![Head(remove)] = [p \in Prefixes |-> << >>]]
    /\ locks' = ExitWith("notified_sondes_lock")
    /\ pc' = "purge_between"
    /\ UNCHANGED << config_vars, failure, ingested, evaluated, notification_check_cycles, tracked_sondes,
                    sondes_altitudes, run_prediction, iter_len, cursor, cur,
                    run_listener, listener, remove, handling, now, tick, log, call,
                    dispatch, cause, budget >>

(* line 149: the with block of sondes_altitudes_lock is entered *)
PurgeAcquireAltitudes ==
    /\ pc = "purge_between"
    /\ locks["sondes_altitudes_lock"] = "free"
    /\ locks' = EnterWith("sondes_altitudes_lock", "tick")
    /\ pc' = "purge_altitudes"
    /\ UNCHANGED << config_vars, failure, ingested, evaluated, notification_check_cycles, tracked_sondes,
                    sondes_altitudes, notified_sondes, run_prediction, iter_len,
                    cursor, cur, run_listener, listener, remove, handling, now, tick,
                    log, call, fired, dispatch, cause, budget >>

(* line 150 and the end of that with block; a KeyError leaves both blocks   *)
(* and the loop of Notifier.run                                             *)
PurgeAltitudes ==
    /\ pc = "purge_altitudes"
    /\ IF Head(remove) \in DOMAIN sondes_altitudes
       THEN /\ sondes_altitudes' = Without(sondes_altitudes, {Head(remove)})
            /\ ingested' = [ingested EXCEPT ![Head(remove)] = << >>]
            /\ evaluated' = evaluated \ {Head(remove)}
            /\ locks' = ExitWith("sondes_altitudes_lock")
            /\ remove' = Tail(remove)
            /\ pc' = "purging"
            /\ UNCHANGED << run_listener, cause >>
       ELSE /\ Finally("KeyError")
            /\ remove' = << >>
            /\ UNCHANGED << sondes_altitudes, ingested, evaluated >>
    /\ UNCHANGED << config_vars, failure, notification_check_cycles, tracked_sondes,
                    notified_sondes, run_prediction, iter_len, cursor, cur, listener,
                    handling, now, tick, log, call, fired, dispatch, budget >>

(* the end of the outer with block *)
PurgeRelease ==
    /\ pc = "purging"
    /\ remove = << >>
    /\ locks' = ExitWith("tracked_sondes_lock")
    /\ pc' = "check"
    /\ UNCHANGED << config_vars, failure, ingested, evaluated, notification_check_cycles, tracked_sondes,
                    sondes_altitudes, notified_sondes, run_prediction, iter_len,
                    cursor, cur, run_listener, listener, remove, handling, now, tick,
                    log, call, fired, dispatch, cause, budget >>

InitLocks ==
    /\ InitEngine
    /\ tracked_sondes = << >>
    /\ sondes_altitudes = << >>
    /\ ingested = [s \in Serials |-> << >>]
    /\ InitConfig(Config(Rings5and20, PredictionConfig(TRUE, 2, FALSE), {"ntfy"}))
    /\ run_listener = TRUE
    /\ listener = "loop"
    /\ budget = LockPackets
    /\ inputs = Inputs(Serials, {Packet(150000, 20000)}, {Packet(40000, 1000)},
                       LockPackets, LockTicks)

NextLocks ==
    \/ \E serial \in inputs.serials, packet \in inputs.packets :
          ListenerReceive(serial, packet)
    \/ ListenerAcquire
    \/ ListenerUpsert
    \/ ListenerAppend
    \/ \E datagram \in inputs.datagrams : ListenerDrop(datagram)
    \/ \E datagram \in inputs.datagrams : ListenerFail(datagram)
    \/ ListenerExit
    \/ PurgeAcquire
    \/ PurgeNext
    \/ PurgeNotified
    \/ PurgeAcquireAltitudes
    \/ PurgeAltitudes
    \/ PurgeRelease
    \/ CheckBegin
    \/ \E failing \in 0..Len(notification_services) : LiveCheck(failing)
    \/ PredictionSkip
    \/ \E response \in inputs.responses, failing \in 0..Len(notification_services) :
          PredictionCheck(response, failing)
    \/ IterationChanged
    \/ CheckEnd
    \/ Sleep
    \/ KeyboardInterrupt
    \/ JoinReturn

SpecLocks == InitLocks /\ [][NextLocks]_vars

----------------------------------------------------------------------------
(* Vocabulary of the properties *)

InPass == pc \in {"iter", "predict"}

RingIds == {range_rings[i].id : i \in 1..Len(range_rings)}

RingById(id) == range_rings[CHOOSE i \in 1..Len(range_rings) : range_rings[i].id = id]

(* the entry of a notified list that stands for ring `id` under `prefix` *)
NotifiedKey(prefix, id) ==
    IF prefix = "" THEN "range_ring_" \o ToString(id)
    ELSE prefix \o "_range_ring_" \o ToString(id)

MarkedIds(list, prefix) == {id \in RingIds : InList(NotifiedKey(prefix, id), list)}

Floor(x) == x \div 10

(* ring thresholds met by a position, whatever has fired *)
Satisfied(ring, distance, altitude) ==
    Floor(distance) <= ring.range /\ Floor(altitude) <= ring.max_altitude

(* ring could be returned by a call with the arguments of record c *)
Eligible(c, ring) ==
    /\ ring.id \notin MarkedIds(c.notified, c.prefix)
    /\ ~(ring.only_descending /\ ~c.descending)
    /\ Satisfied(ring, c.distance, c.altitude)

SortedRegistry ==
    \A i, j \in 1..Len(range_rings) : i < j => range_rings[i].range <= range_rings[j].range

NotifyEvents(serial, prefix) ==
    {k \in 1..Len(log) : log[k].ev = "notify" /\ log[k].serial = serial
                         /\ log[k].prefix = prefix}

RequestEvents == {k \in 1..Len(log) : log[k].ev = "request"}

----------------------------------------------------------------------------
(* C1: telescoping dedup.  Every ring id marked for (serial, prefix) has    *)
(* its own entry and the entry of every ring with a greater or equal id in  *)
(* the serial's notified list; and a call of _check_range_rings for that    *)
(* serial and prefix returns only a ring whose id is smaller than every id  *)
(* marked since the sonde was created.  With the Registry in ascending      *)
(* range order the returned ring is therefore never looser than a ring      *)
(* that has fired.                                                          *)
C1_Marked ==
    \A s \in Serials, p \in Prefixes :
        \A k \in 1..Len(fired[s][p]) :
            \A id \in RingIds :
                id >= fired[s][p][k] =>
                    id \in MarkedIds(DefaultGet(notified_sondes, s), p)

C1_Returned ==
    (call' # call /\ ~IsNone(call') /\ ~IsNone(Get(call').ret)) =>
        LET c == Get(call')
            ring == Get(c.ret)
            earlier == fired[c.serial][c.prefix]
        IN  \A k \in 1..Len(earlier) :
                /\ ring.id < earlier[k]
                /\ SortedRegistry => ring.range <= RingById(earlier[k]).range

----------------------------------------------------------------------------
----------------------------------------------------------------------------
(* C3: _check_range_rings returns the first ring in Registry order that is  *)
(* not yet notified under the prefix, is not an only-descending ring while  *)
(* the sonde is not descending, and has floor(distance) <= range and        *)
(* floor(altitude) <= max_altitude; none if there is no such ring; the      *)
(* returned ring carries the prefix of the call.                            *)
C3_CheckRings ==
    ~IsNone(call) =>
        LET c == Get(call)
            eligible == {i \in 1..Len(range_rings) : Eligible(c, range_rings[i])}
        IN  IF eligible = {}
            THEN IsNone(c.ret)
            ELSE LET first == CHOOSE i \in eligible : \A j \in eligible : i <= j
                 IN  /\ ~IsNone(c.ret)
                     /\ Get(c.ret) = [range_rings[first] EXCEPT !.prefix = c.prefix]

(* a ring is returned for a position that meets both of its thresholds     *)
(* only once the fractions of distance and altitude are cut                 *)
C3_Witness ==
    /\ ~IsNone(call)
    /\ ~IsNone(Get(call).ret)
    /\ Get(call).distance % 10 # 0
    /\ Get(call).altitude % 10 # 0
    /\ Floor(Get(call).distance) = Get(Get(call).ret).range
    /\ Floor(Get(call).altitude) = Get(Get(call).ret).max_altitude

----------------------------------------------------------------------------
(* C4: prefix isolation.  A step that marks rings under the live prefix     *)
(* leaves the set of ring ids marked under the "prediction" prefix as it    *)
(* was, for every serial, and a step that marks under "prediction" leaves   *)
(* the live marks as they were.                                             *)
C4_Step ==
    \A s \in Serials :
        LET before == DefaultGet(notified_sondes, s)
            after == DefaultGet(notified_sondes', s)
        IN  /\ Len(fired'[s][""]) > Len(fired[s][""]) =>
                  /\ MarkedIds(after, "prediction") = MarkedIds(before, "prediction")
                  /\ MarkedIds(after, "") # MarkedIds(before, "")
            /\ Len(fired'[s]["prediction"]) > Len(fired[s]["prediction"]) =>
                  /\ MarkedIds(after, "") = MarkedIds(before, "")
                  /\ MarkedIds(after, "prediction") # MarkedIds(before, "prediction")

C4_PrefixIsolation == [][C4_Step]_vars

(* ring 0 has fired for one sonde under both prefixes: under the second     *)
(* prefix it was returned although it had fired under the first             *)
C4_Witness ==
    \E s \in Serials : fired[s][""] = << 0 >> /\ fired[s]["prediction"] = << 0 >>

----------------------------------------------------------------------------
(* C5: purge completeness.  A completed purge pass removes from all three   *)
(* structures every sonde whose latest frame is 5 hours old or older, and   *)
(* leaves the entries of every other serial in all three as they were; no   *)
(* other step removes a serial from any of the three structures.            *)
EntryOf(dd, s) == IF s \in DOMAIN dd THEN Some(dd[s]) ELSE None

FrameOf(d, s) == IF s \in DictKeys(d) THEN Some(DictGet(d, s)) ELSE None

C5_Step ==
    /\ (pc = "purge" /\ pc' = "check") =>
          \A s \in Serials :
              IF s \in DictKeys(tracked_sondes)
                 /\ now - DictGet(tracked_sondes, s).time >= 5 * 3600
              THEN /\ s \notin DictKeys(tracked_sondes')
                   /\ s \notin DOMAIN sondes_altitudes'
                   /\ s \notin DOMAIN notified_sondes'
              ELSE /\ FrameOf(tracked_sondes', s) = FrameOf(tracked_sondes, s)
                   /\ EntryOf(sondes_altitudes', s) = EntryOf(sondes_altitudes, s)
                   /\ EntryOf(notified_sondes', s) = EntryOf(notified_sondes, s)
    /\ pc # "purge" =>
          /\ DictKeys(tracked_sondes) \subseteq DictKeys(tracked_sondes')
          /\ DOMAIN sondes_altitudes \subseteq DOMAIN sondes_altitudes'
          /\ DOMAIN notified_sondes \subseteq DOMAIN notified_sondes'

C5_PurgeCompleteness == [][C5_Step]_vars

(* a pass has just removed sonde A, whose window and notified list existed, *)
(* and kept sonde B, whose last frame is 3 h 20 min old                     *)
C5_Witness ==
    /\ pc = "check"
    /\ IsNone(handling)
    /\ ingested["B"] # << >>
    /\ "B" \in DictKeys(tracked_sondes)
    /\ now - DictGet(tracked_sondes, "B").time = 12000
    /\ "B" \in DOMAIN sondes_altitudes /\ "B" \in DOMAIN notified_sondes
    /\ "A" \notin DictKeys(tracked_sondes)
    /\ "A" \notin DOMAIN sondes_altitudes
    /\ "A" \notin DOMAIN notified_sondes

----------------------------------------------------------------------------
(* C6: prediction cycle gating.  With prediction enabled, the pass numbered *)
(* t (from 1) runs predictions if and only if t is a multiple of            *)
(* prediction_min_cycles, and a pass that is not such a multiple issues no  *)
(* prediction request.                                                      *)
C6_CycleGating ==
    (prediction_engine /\ InPass) =>
        /\ run_prediction <=> (tick % prediction_min_cycles = 0)
        /\ (tick % prediction_min_cycles # 0) => RequestEvents = {}

(* with three cycles configured, a request is issued in the third pass *)
C6_Witness ==
    /\ prediction_min_cycles = 3
    /\ tick = 3
    /\ InPass
    /\ RequestEvents # {}

----------------------------------------------------------------------------
(* C7: prediction gate.  Every prediction request of a pass is for a sonde  *)
(* whose window has at least 3 samples, whose latest frame is no older than *)
(* one check interval and, when only_predict_descending is set, whose       *)
(* window is strictly decreasing; and it is issued only with prediction     *)
(* enabled in a pass whose cycle counter had reached prediction_min_cycles. *)
StrictlyDecreasing(w) == \A i \in 1..(Len(w) - 1) : w[i] > w[i + 1]

----------------------------------------------------------------------------
(* C8: window bound.  The window of a serial holds the min(n, 5) altitudes  *)
(* appended last, in arrival order, n being the number appended since the   *)
(* window was created; it never holds more than 5.                          *)
LastN(seq, n) == SubSeq(seq, Len(seq) - n + 1, Len(seq))

Min(a, b) == IF a <= b THEN a ELSE b

C8_WindowBound ==
    \A s \in DOMAIN sondes_altitudes :
        /\ Len(sondes_altitudes[s]) <= 5
        /\ sondes_altitudes[s] = LastN(ingested[s], Min(Len(ingested[s]), 5))

(* seven samples arrived, the first two, which differ from what follows     *)
(* them, are gone                                                           *)
C8_Witness ==
    /\ Len(ingested["A"]) = 7
    /\ ingested["A"][1] # ingested["A"][3]
    /\ ingested["A"][2] # ingested["A"][3]
    /\ sondes_altitudes["A"] = SubSeq(ingested["A"], 3, 7)

----------------------------------------------------------------------------
(* C9: descending classification.  The flag a pass uses for a sonde is true *)
(* if and only if the sonde's current window has at least 3 samples and     *)
(* every consecutive pair of it is strictly decreasing.                     *)
C9_Descending ==
    (InPass /\ ~IsNone(cur)) =>
        LET w == DefaultGet(sondes_altitudes, Get(cur).serial)
        IN  Get(cur).is_descending <=> (Len(w) >= 3 /\ StrictlyDecreasing(w))

(* a full window of five strictly decreasing samples is classified descending *)
C9_Witness ==
    /\ InPass
    /\ ~IsNone(cur)
    /\ Get(cur).is_descending
    /\ Len(DefaultGet(sondes_altitudes, Get(cur).serial)) = 5

----------------------------------------------------------------------------
(* C10: lock discipline.  While a check pass is in progress the main thread *)
(* holds all three locks, and no step of _handle_packet takes place.        *)
C10_AllHeld == InPass => \A l \in LockNames : locks[l] = "tick"

C10_NoIngest == InPass => (tracked_sondes' = tracked_sondes /\ handling' = handling)

C10_LockDiscipline == [](C10_AllHeld) /\ [][C10_NoIngest]_vars

----------------------------------------------------------------------------
(* C11: deadlock freedom.  A thread that enters a with block while it is    *)
(* inside another one always takes the locks in the order tracked_sondes,   *)
(* notified_sondes, sondes_altitudes, whichever call site it is in; and in  *)
(* no reachable state are the listener thread and the main thread both      *)
(* waiting for a lock that is not free.                                     *)
Rank(lock) ==
    IF lock = "tracked_sondes_lock" THEN 1
    ELSE IF lock = "notified_sondes_lock" THEN 2 ELSE 3

ListenerWaits(lock) ==
    \/ listener = "want_tracked" /\ lock = "tracked_sondes_lock"
    \/ listener = "want_altitudes" /\ lock = "sondes_altitudes_lock"

TickWaits(lock) ==
    \/ pc = "purge" /\ lock = "tracked_sondes_lock"
    \/ pc = "purging" /\ remove # << >> /\ lock = "notified_sondes_lock"
    \/ pc = "purge_between" /\ lock = "sondes_altitudes_lock"
    \/ pc = "check" /\ lock = "sondes_altitudes_lock"

C11_NotBothBlocked ==
    ~ /\ \E l \in LockNames : ListenerWaits(l) /\ locks[l] # "free"
      /\ \E l \in LockNames : TickWaits(l) /\ locks[l] # "free"

C11_Ordered ==
    \A l \in LockNames :
        (locks[l] = "free" /\ locks'[l] # "free") =>
            \A h \in LockNames : locks[h] = locks'[l] => Rank(h) < Rank(l)

C11_DeadlockFreedom == [](C11_NotBothBlocked) /\ [][C11_Ordered]_vars

(* the main thread, inside the with block of tracked_sondes_lock, waits for *)
(* sondes_altitudes_lock, which the listener thread holds                   *)
C11_Witness ==
    /\ pc = "purge_between"
    /\ locks["tracked_sondes_lock"] = "tick"
    /\ locks["sondes_altitudes_lock"] = "listener"

----------------------------------------------------------------------------
(* C12: tick-loop survival.  Notifier.run leaves its loop only on a         *)
(* KeyboardInterrupt: an exception raised inside a purge or check pass is   *)
(* logged and the loop goes on with the next pass.                          *)
C12_TickLoopSurvival ==
    pc \in {"join", "exited"} => cause = "KeyboardInterrupt"

----------------------------------------------------------------------------
(* C13: sink failure isolation.  When a ring fires under the live prefix,   *)
(* every enabled service is called, in list order, whether or not a call    *)
(* of one of them fails, and the check pass goes on.                        *)
C13_SinkIsolation ==
    (~IsNone(dispatch) /\ Get(dispatch).prefix = "") =>
        /\ Get(dispatch).invoked = notification_services
        /\ Get(dispatch).raised => pc \notin {"join", "exited"}

----------------------------------------------------------------------------
(* C14: prediction failures collapse to none.  No failure of the outbound   *)
(* request makes run_landing_prediction raise into the check pass: the loop *)
(* of Notifier.run is never left because of it.                             *)
C14_PredictionCollapses == cause # "prediction"

----------------------------------------------------------------------------
(* C15: shutdown.  When Notifier.run has returned after a KeyboardInterrupt *)
(* the run flag of the listener is cleared and the listener thread has left *)
(* its receive loop.                                                        *)
C15_Shutdown ==
    (pc = "exited" /\ cause = "KeyboardInterrupt") =>
        (~run_listener /\ listener \in {"stopped", "failed"})

----------------------------------------------------------------------------
(* C16: malformed inbound packet.  A datagram that is not JSON, that has no *)
(* type field or that is a payload summary lacking a field never makes the  *)
(* listener thread close itself: the thread stays in its receive loop for   *)
(* the packets that follow.                                                 *)
C16_MalformedDropped == failure \notin {"not_json", "no_type", "missing_field"}

----------------------------------------------------------------------------
(* C17: start-up validation.  A configuration with no range ring, or with a *)
(* ring entry that lacks one of name, radius, max_altitude and              *)
(* only_descending, ends the process in Notifier.__init__: no listener is   *)
(* started and no pass ever runs; and whenever the process has not ended    *)
(* there, the Registry holds at least one ring.                             *)
C17_StartupValidation ==
    /\ (\/ Len(config.rings) = 0
        \/ \E i \in 1..Len(config.rings) :
              \E key \in {"name", "radius", "max_altitude", "only_descending"} :
                  key \notin DOMAIN config.rings[i])
          => (pc = "terminated" /\ listener = "none" /\ tick = 0
              /\ tracked_sondes = << >>)
    /\ pc # "terminated" => Len(range_rings) >= 1

(* the second ring of the configuration has no max_altitude *)
C17_Witness ==
    /\ pc = "terminated"
    /\ Len(config.rings) = 2
    /\ "max_altitude" \notin DOMAIN config.rings[2]

----------------------------------------------------------------------------
(* C18: Registry ordering.  The rings of the Registry are in ascending      *)
(* order of range, the ring ids ascend with them, and no step changes the   *)
(* Registry.                                                                *)
C18_Sorted ==
    \A i, j \in 1..Len(range_rings) :
        range_rings[i].id < range_rings[j].id =>
            (i < j /\ range_rings[i].range <= range_rings[j].range)

C18_RegistryOrdering == [](C18_Sorted) /\ [][range_rings' = range_rings]_vars

----------------------------------------------------------------------------
(* C19: one-shot per ring.  Between the creation of a sonde and its purge   *)
(* every (prefix, ring id) is notified at most once for the serial: a ring  *)
(* is notified only while it is unmarked and has not fired, it is marked in *)
(* the step that notifies it unless a service raised, and then the run is   *)
(* over and the serial is not evaluated again.  The notified list of a      *)
(* serial only grows, and it disappears only in the purge that removes the  *)
(* sonde.                                                                   *)
IsPrefixOf(a, b) == Len(a) <= Len(b) /\ SubSeq(b, 1, Len(a)) = a

C19_Once ==
    /\ \A s \in Serials, p \in Prefixes :
           /\ \A i, j \in 1..Len(fired[s][p]) : i # j => fired[s][p][i] # fired[s][p][j]
           /\ \A k \in 1..Len(fired[s][p]) :
                  fired[s][p][k] \in MarkedIds(DefaultGet(notified_sondes, s), p)
    /\ ~IsNone(dispatch) =>
           IF Get(dispatch).raised
           THEN pc \in {"join", "exited"}
           ELSE Get(dispatch).ring \in
                    MarkedIds(DefaultGet(notified_sondes, Get(dispatch).serial),
                              Get(dispatch).prefix)

C19_Step ==
    /\ \A k \in (Len(log) + 1)..Len(log') :
           log'[k].ev = "notify" =>
               /\ pc \notin {"join", "exited"}
               /\ \A j \in 1..Len(fired[log'[k].serial][log'[k].prefix]) :
                      fired[log'[k].serial][log'[k].prefix][j] # log'[k].ring
               /\ log'[k].ring \notin
                      MarkedIds(DefaultGet(notified_sondes, log'[k].serial),
                                log'[k].prefix)
    /\ \A s \in DOMAIN notified_sondes :
           IF s \in DOMAIN notified_sondes'
           THEN IsPrefixOf(notified_sondes[s], notified_sondes'[s])
           ELSE pc = "purge" /\ s \notin DictKeys(tracked_sondes')

C19_OneShotPerRing == [](C19_Once) /\ [][C19_Step]_vars

(* a sonde both of whose rings have fired, the wider one first, is          *)
(* evaluated inside both rings and nothing is returned                      *)
C19_Witness ==
    /\ ~IsNone(call)
    /\ Get(call).prefix = ""
    /\ IsNone(Get(call).ret)
    /\ fired[Get(call).serial][""] = << 1, 0 >>
    /\ \A i \in 1..Len(range_rings) :
           /\ Satisfied(range_rings[i], Get(call).distance, Get(call).altitude)
           /\ ~(range_rings[i].only_descending /\ ~Get(call).descending)

----------------------------------------------------------------------------
(* C20: tick step order across sondes.  Inside one pass the prediction      *)
(* check of a sonde (its request to the prediction engine) starts only      *)
(* after the live check of every tracked sonde of the pass is done.         *)
C20_LiveChecksDone == cursor = iter_len

C20_Step ==
    (\E k \in (Len(log) + 1)..Len(log') : log'[k].ev = "request") =>
        (InPass /\ C20_LiveChecksDone)

C20_StepOrder == [][C20_Step]_vars

----------------------------------------------------------------------------
(* C21: purge before evaluation, and the order of the steps of one sonde.   *)
(* While a pass runs no tracked frame has reached the maximum age, so the   *)
(* purge of the tick has completed and what it removed is neither evaluated *)
(* nor notified; sondes leave the tracking state only in the purge, outside *)
(* the pass.  A prediction request for a sonde directly follows the live    *)
(* check of that sonde in the same pass, with the ring the live check       *)
(* returned dispatched and marked; and a notification under the prefix      *)
(* "prediction" directly follows the request for the same sonde.            *)
C21_Purged ==
    InPass => \A i \in 1..Len(tracked_sondes) :
                  frame_age(tracked_sondes[i]) < TRACKED_SONDES_MAX_SECONDS

C21_Step ==
    /\ (call' # call /\ ~IsNone(call')) =>
           /\ InPass
           /\ Get(call').serial \in DictKeys(tracked_sondes)
           /\ frame_age(DictGet(tracked_sondes, Get(call').serial))
                  < TRACKED_SONDES_MAX_SECONDS
    /\ (DictKeys(tracked_sondes) \ DictKeys(tracked_sondes') # {}) =>
           pc \in {"purge", "purging"}
    /\ \A k \in (Len(log) + 1)..Len(log') :
           /\ log'[k].ev = "request" =>
                  /\ pc = "predict"
                  /\ ~IsNone(call)
                  /\ Get(call).serial = log'[k].serial
                  /\ Get(call).prefix = ""
                  /\ ~IsNone(Get(call).ret) =>
                         /\ dispatch = Some([serial |-> log'[k].serial, prefix |-> "",
                                             ring |-> Get(Get(call).ret).id,
                                             invoked |-> notification_services,
                                             raised |-> FALSE])
                         /\ Get(Get(call).ret).id \in
                                MarkedIds(DefaultGet(notified_sondes, log'[k].serial), "")
           /\ (log'[k].ev = "notify" /\ log'[k].prefix = "prediction") =>
                  /\ k > Len(log) + 1
                  /\ log'[k - 1].ev = "request"
                  /\ log'[k - 1].serial = log'[k].serial

C21_PurgeBeforeEvaluate == [](C21_Purged) /\ [][C21_Step]_vars

(* sonde A, tracked from the start and silent since, has reached the        *)
(* maximum age and is gone; sonde B, heard again later and notified under   *)
(* the live prefix, gets its prediction request and prediction notification *)
C21_Witness ==
    /\ InPass
    /\ now = TRACKED_SONDES_MAX_SECONDS
    /\ "A" \notin DictKeys(tracked_sondes)
    /\ "B" \in DictKeys(tracked_sondes)
    /\ fired["B"][""] # << >>
    /\ Len(log) = 2
    /\ log[1] = Event("request", "B", "prediction", -1)
    /\ log[2].ev = "notify" /\ log[2].serial = "B" /\ log[2].prefix = "prediction"

----------------------------------------------------------------------------
(* C22: per-sonde prediction failure.  The step in which the prediction of  *)
(* a sonde yields none dispatches nothing and marks nothing, leaves what    *)
(* the live check of that sonde did as it is, and stays in the loop of the  *)
(* pass: no notification under the prefix "prediction" is in the log of the *)
(* pass for that sonde, and with sondes left to evaluate the live check of  *)
(* the next one can be taken.                                               *)
PredictionFailed == {k \in 1..Len(log) : log[k].ev = "warning"}

C22_Skipped ==
    /\ \A k \in PredictionFailed :
           /\ k > 1 /\ log[k - 1] = Event("request", log[k].serial, "prediction", -1)
           /\ \A j \in NotifyEvents(log[k].serial, "prediction") : j < k - 1
    /\ (/\ Len(log) \in PredictionFailed
        /\ pc = "iter"
        /\ Len(tracked_sondes) = iter_len
        /\ cursor < iter_len) => ENABLED LiveCheck(0)

C22_Step ==
    (\E k \in (Len(log) + 1)..Len(log') : log'[k].ev = "warning") =>
        /\ pc = "predict" /\ pc' = "iter"
        /\ log'[Len(log')].serial = Get(cur).serial
        /\ UNCHANGED << tracked_sondes, sondes_altitudes, notified_sondes, fired,
                        dispatch, call, cursor, iter_len, locks, cause, run_listener >>

C22_PredictionFailure == [](C22_Skipped) /\ [][C22_Step]_vars

(* the prediction of sonde A failed, and after it sonde B was notified      *)
(* under the live prefix and had its own prediction requested               *)
C22_Witness ==
    /\ Len(log) >= 4
    /\ \E k \in PredictionFailed :
           /\ log[k].serial = "A"
           /\ k + 2 <= Len(log)
           /\ log[k + 1] .ev = "notify" /\ log[k + 1].serial = "B" /\ log[k + 1].prefix = ""
           /\ log[k + 2] = Event("request", "B", "prediction", -1)
    /\ fired["A"][""] # << >>

----------------------------------------------------------------------------
(* C23: strictly tightening notifications.  For one serial and one prefix   *)
(* the ring ids notified since the sonde was created are strictly           *)
(* decreasing, so there are at most as many of them as the Registry has     *)
(* rings, and once ring 0 has fired nothing more is notified under that     *)
(* prefix until the purge.                                                  *)
C23_Decreasing ==
    \A s \in Serials, p \in Prefixes :
        /\ \A i, j \in 1..Len(fired[s][p]) : i < j => fired[s][p][i] > fired[s][p][j]
        /\ Len(fired[s][p]) <= Len(range_rings)

C23_Step ==
    \A k \in (Len(log) + 1)..Len(log') :
        log'[k].ev = "notify" =>
            LET earlier == fired[log'[k].serial][log'[k].prefix] IN
                /\ \A j \in 1..Len(earlier) : log'[k].ring < earlier[j]
                /\ \A j \in 1..Len(earlier) : earlier[j] # 0
                /\ Len(earlier) < Len(range_rings)

C23_StrictlyTightening == [](C23_Decreasing) /\ [][C23_Step]_vars

(* under the prefix "prediction" ring 1 and then ring 0 have fired for a    *)
(* sonde, and a later forecast inside both rings returns nothing            *)
C23_Witness ==
    /\ ~IsNone(call)
    /\ Get(call).prefix = "prediction"
    /\ IsNone(Get(call).ret)
    /\ fired[Get(call).serial]["prediction"] = << 1, 0 >>
    /\ \A i \in 1..Len(range_rings) :
           /\ Satisfied(range_rings[i], Get(call).distance, Get(call).altitude)
           /\ ~(range_rings[i].only_descending /\ ~Get(call).descending)

----------------------------------------------------------------------------
(* C24: the live evaluation is idempotent without new data.  A live check   *)
(* of a sonde that has been live-checked before, with no step of            *)
(* _handle_packet for it and no purge of it since, returns no ring: no      *)
(* notification is dispatched for the sonde and the rings marked for it     *)
(* under the live prefix stay the same.                                     *)
C24_Step ==
    (cursor' = cursor + 1 /\ tracked_sondes[cursor + 1].serial \in evaluated) =>
        LET s == tracked_sondes[cursor + 1].serial IN
            /\ ~IsNone(call') /\ Get(call').serial = s /\ Get(call').prefix = ""
            /\ IsNone(Get(call').ret)
            /\ \A k \in (Len(log) + 1)..Len(log') : log'[k].ev # "notify"
            /\ dispatch' = dispatch
            /\ fired'[s][""] = fired[s][""]
            /\ MarkedIds(DefaultGet(notified_sondes', s), "")
                   = MarkedIds(DefaultGet(notified_sondes, s), "")

C24_LiveIdempotent == [][C24_Step]_vars

(* no packet has arrived since the start; sonde A, notified in the first    *)
(* pass, is still inside a ring in the second pass and nothing is returned  *)
C24_Witness ==
    /\ tick = 2
    /\ budget = WarmPackets
    /\ "A" \in evaluated
    /\ ~IsNone(call)
    /\ Get(call).serial = "A" /\ Get(call).prefix = ""
    /\ IsNone(Get(call).ret)
    /\ fired["A"][""] # << >>
    /\ \E i \in 1..Len(range_rings) :
           /\ Satisfied(range_rings[i], Get(call).distance, Get(call).altitude)
           /\ ~(range_rings[i].only_descending /\ ~Get(call).descending)

----------------------------------------------------------------------------
(* C25: consistent snapshot in evaluation.  Every live check uses a frame   *)
(* and a window that belong together, the newest sample of the window being *)
(* the altitude of the frame; and no step changes tracked_sondes while a    *)
(* pass iterates over it.                                                   *)
C25_Step ==
    /\ cursor' = cursor + 1 =>
           LET frame == tracked_sondes[cursor + 1]
               altitudes == DefaultGet(sondes_altitudes, frame.serial)
           IN  /\ altitudes # << >>
               /\ altitudes[Len(altitudes)] = frame.altitude
    /\ InPass => tracked_sondes' = tracked_sondes

C25_ConsistentSnapshot == [][C25_Step]_vars

----------------------------------------------------------------------------
(* C26: the listener stop is race-free.  Once close() has been called the   *)
(* listener thread is never in its receive loop with the run flag set, the  *)
(* state in which it goes on receiving and calling _handle_packet: it       *)
(* finds the flag cleared and leaves the loop.                              *)
C26_ListenerStops ==
    pc \in {"join", "exited"} => ~(listener = "loop" /\ run_listener)

----------------------------------------------------------------------------
----------------------------------------------------------------------------
(* C28: effect and frame of an ingest.  The first half of _handle_packet    *)
(* makes the frame the latest frame of its serial, creating the entry on    *)
(* first sight, and the second half appends the frame's altitude to the     *)
(* window of that serial; the frames and windows of the other serials and   *)
(* all notified lists stay as they are.  When no packet is being handled    *)
(* the latest frame of a tracked serial is the last one ingested for it.    *)
C28_Upsert ==
    (IsNone(handling) /\ ~IsNone(handling')) =>
        LET frame == Get(handling') IN
            /\ FrameOf(tracked_sondes', frame.serial) = Some(frame)
            /\ DictKeys(tracked_sondes') = DictKeys(tracked_sondes) \cup {frame.serial}
            /\ \A s \in Serials \ {frame.serial} :
                   FrameOf(tracked_sondes', s) = FrameOf(tracked_sondes, s)
            /\ UNCHANGED << sondes_altitudes, notified_sondes >>

C28_Append ==
    (~IsNone(handling) /\ IsNone(handling')) =>
        LET frame == Get(handling)
            before == DefaultGet(sondes_altitudes, frame.serial)
            after == DefaultGet(sondes_altitudes', frame.serial)
        IN  /\ after = LastN(Append(before, frame.altitude),
                             Min(Len(before) + 1, DequeMaxLen))
            /\ DOMAIN sondes_altitudes' = DOMAIN sondes_altitudes \cup {frame.serial}
            /\ \A s \in Serials \ {frame.serial} :
                   EntryOf(sondes_altitudes', s) = EntryOf(sondes_altitudes, s)
            /\ UNCHANGED << tracked_sondes, notified_sondes >>

C28_Latest ==
    /\ ~IsNone(handling) =>
           (Get(handling).serial \in DictKeys(tracked_sondes) =>
                DictGet(tracked_sondes, Get(handling).serial) = Get(handling))
    /\ IsNone(handling) =>
           \A s \in DictKeys(tracked_sondes) :
               ingested[s] # << >> =>
                   DictGet(tracked_sondes, s).altitude = ingested[s][Len(ingested[s])]

C28_IngestEffect == [](C28_Latest) /\ [][C28_Upsert /\ C28_Append]_vars

(* a second packet of sonde A, with another altitude, has been handled      *)
(* while sonde B is tracked and has been notified                           *)
C28_Witness ==
    /\ IsNone(handling)
    /\ Len(ingested["A"]) = 2
    /\ ingested["A"][1] # ingested["A"][2]
    /\ FrameOf(tracked_sondes, "A") # None
    /\ DictGet(tracked_sondes, "A").altitude = ingested["A"][2]
    /\ sondes_altitudes["A"] = ingested["A"]
    /\ "B" \in DictKeys(tracked_sondes)
    /\ "B" \in DOMAIN notified_sondes /\ notified_sondes["B"] # << >>

----------------------------------------------------------------------------
(* C29: a listener failure is contained.  The step in which the listener    *)
(* fails ends the listener thread with its run flag cleared and changes     *)
(* nothing of the main thread and of the tracking state.  From then on the  *)
(* listener stays ended, no packet is handled and no frame or sample is     *)
(* added, while the main thread goes on: its purge and its check pass can   *)
(* be taken whenever it has reached them.                                   *)
C29_Failed ==
    listener = "failed" =>
        /\ ~run_listener
        /\ failure # "none"
        /\ IsNone(handling)
        /\ (pc = "purge" => ENABLED PurgeOldTracked)
        /\ (pc = "check" => ENABLED CheckBegin)

C29_Step ==
    /\ failure' # failure =>
           /\ listener' = "failed"
           /\ ~run_listener'
           /\ UNCHANGED << pc, cause, locks, tick, now, tracked_sondes,
                           sondes_altitudes, notified_sondes, fired, log >>
    /\ listener = "failed" =>
           /\ listener' = "failed"
           /\ UNCHANGED << handling, budget, failure >>
           /\ \A s \in DictKeys(tracked_sondes') :
                  FrameOf(tracked_sondes', s) = FrameOf(tracked_sondes, s)
           /\ \A s \in DOMAIN sondes_altitudes' :
                  EntryOf(sondes_altitudes', s) = EntryOf(sondes_altitudes, s)

C29_ListenerFailureContained == [](C29_Failed) /\ [][C29_Step]_vars

(* the socket of the listener failed while one sonde was tracked; the main  *)
(* thread went on, evaluated the sonde in its last pass and has now, five   *)
(* hours after the frame, purged it                                         *)
C29_Witness ==
    /\ listener = "failed"
    /\ failure = "socket_error"
    /\ cause = "none"
    /\ pc = "check"
    /\ now = TRACKED_SONDES_MAX_SECONDS
    /\ iter_len = 1 /\ cursor = 1
    /\ tracked_sondes = << >>
    /\ sondes_altitudes = << >> /\ notified_sondes = << >>

----------------------------------------------------------------------------
(* C30: the prediction dispatch conforms to the contract of the services.   *)
(* When a ring matches under the prefix "prediction", every service the     *)
(* fan-out calls accepts the four arguments of the call, and when no        *)
(* outbound call fails every enabled service has been called and the ring   *)
(* is marked under the prefix "prediction".                                 *)
C30_PredictionDispatch ==
    (~IsNone(dispatch) /\ Get(dispatch).prefix = "prediction") =>
        LET d == Get(dispatch) IN
            /\ \A i \in 1..Len(d.invoked) : AcceptsPrediction(d.invoked[i])
            /\ ~d.raised =>
                   /\ d.invoked = notification_services
                   /\ d.ring \in MarkedIds(DefaultGet(notified_sondes, d.serial),
                                           "prediction")

====
